---------------------------- MODULE Spec2Model ----------------------------
(***************************************************************************)
(* A model of zim/parsing.py: the backslash escape codec, the percent      *)
(* codec, the link classifier, the date parser and the Re match wrapper.   *)
(*                                                                         *)
(* Text is a sequence of Unicode code points (a Python str); a byte string *)
(* is a sequence of numbers 0..255.  Every function of the module is an    *)
(* operator computed the way the code computes it; every specification     *)
(* draws the arguments of one group of functions from a bounded set and    *)
(* applies the functions to them.                                          *)
(***************************************************************************)
EXTENDS Integers, Sequences, FiniteSets, TLC

VARIABLES
    pc,     \* the position of the caller: which call has returned
    arg,    \* the arguments of the call (a record)
    ret,    \* what the last call returned (a record)
    m,      \* Re.m: the match object the Re instance memorizes, or NoMatch
    hist    \* history of the calls made on the Re instance (for the claims)

vars == <<pc, arg, ret, m, hist>>

(***************************************************************************)
(* Bounds of the model.                                                    *)
(***************************************************************************)
MaxTokens == 4      \* url inputs: at most this many pieces
MaxText == 4        \* escape codec inputs: at most this many characters
MaxKey == 3         \* interwiki names: at most this many characters
MaxTail == 3        \* links: at most this many pieces after the prefix
MaxItem == 3        \* Re inputs: strings of at most this many characters
MaxList == 2        \* sublist inputs: lists of at most this many items
MaxLead == 2        \* date inputs: at most this many characters before the numbers

(***************************************************************************)
(* Sequences                                                               *)
(***************************************************************************)
RECURSIVE Concat(_)
Concat(ss) == IF ss = <<>> THEN <<>> ELSE Head(ss) \o Concat(Tail(ss))

\* All sequences over S of length 0..n
SeqsUpTo(S, n) == UNION {[1..k -> S] : k \in 0..n}

\* s[i:j] of Python, for 1-based i and exclusive 1-based j: s[i..j-1]
Slice(s, i, j) == SubSeq(s, i, j - 1)

NoValue == [none |-> TRUE]

(***************************************************************************)
(* The UTF-8 codec of the Python runtime (str.encode, bytes.decode).       *)
(***************************************************************************)
Utf8Char(cp) ==
    IF cp < 128 THEN <<cp>>
    ELSE IF cp < 2048 THEN <<192 + (cp \div 64), 128 + (cp % 64)>>
    ELSE IF cp < 65536
        THEN <<224 + (cp \div 4096), 128 + ((cp \div 64) % 64), 128 + (cp % 64)>>
    ELSE <<240 + (cp \div 262144), 128 + ((cp \div 4096) % 64),
           128 + ((cp \div 64) % 64), 128 + (cp % 64)>>

RECURSIVE Utf8Encode(_)
Utf8Encode(s) == IF s = <<>> THEN <<>> ELSE Utf8Char(Head(s)) \o Utf8Encode(Tail(s))

\* The number of bytes of the well-formed character that starts at b[i], 0 if
\* none does (strict decoding: no overlong forms, no surrogates, <= U+10FFFF).
Utf8Width(b, i) ==
    LET n == Len(b)
        c == b[i]
        cont(k) == k <= n /\ b[k] \in 128..191
        in(k, lo, hi) == k <= n /\ b[k] \in lo..hi
    IN  CASE c < 128 -> 1
          [] c \in 194..223 /\ cont(i + 1) -> 2
          [] c = 224 /\ in(i + 1, 160, 191) /\ cont(i + 2) -> 3
          [] c \in (225..236) \cup {238, 239} /\ cont(i + 1) /\ cont(i + 2) -> 3
          [] c = 237 /\ in(i + 1, 128, 159) /\ cont(i + 2) -> 3
          [] c = 240 /\ in(i + 1, 144, 191) /\ cont(i + 2) /\ cont(i + 3) -> 4
          [] c \in 241..243 /\ cont(i + 1) /\ cont(i + 2) /\ cont(i + 3) -> 4
          [] c = 244 /\ in(i + 1, 128, 143) /\ cont(i + 2) /\ cont(i + 3) -> 4
          [] OTHER -> 0

Utf8Point(b, i, w) ==
    CASE w = 1 -> b[i]
      [] w = 2 -> (b[i] - 192) * 64 + (b[i + 1] - 128)
      [] w = 3 -> (b[i] - 224) * 4096 + (b[i + 1] - 128) * 64 + (b[i + 2] - 128)
      [] w = 4 -> (b[i] - 240) * 262144 + (b[i + 1] - 128) * 4096
                    + (b[i + 2] - 128) * 64 + (b[i + 3] - 128)

RECURSIVE Utf8Valid(_, _)
Utf8Valid(b, i) ==
    IF i > Len(b) THEN TRUE
    ELSE LET w == Utf8Width(b, i) IN w > 0 /\ Utf8Valid(b, i + w)

RECURSIVE Utf8Points(_, _)
Utf8Points(b, i) ==
    IF i > Len(b) THEN <<>>
    ELSE LET w == Utf8Width(b, i) IN <<Utf8Point(b, i, w)>> \o Utf8Points(b, i + w)

\* bytes.decode('UTF-8'): the text, or UnicodeDecodeError
Utf8Decode(b) ==
    IF Utf8Valid(b, 1) THEN [ok |-> TRUE, str |-> Utf8Points(b, 1)]
    ELSE [ok |-> FALSE, str |-> <<>>]

(***************************************************************************)
(* Percent codec                                                           *)
(***************************************************************************)
URL_ENCODE_DATA == 0
URL_ENCODE_PATH == 1
URL_ENCODE_READABLE == 2

IsDigit(c) == c \in 48..57
IsAlpha(c) == c \in 65..90 \/ c \in 97..122
IsHex(c) == c \in 48..57 \/ c \in 65..70 \/ c \in 97..102

\* _url_encode_re: [^A-Za-z0-9\-_.~]
_url_encode_re(c) == ~(IsAlpha(c) \/ IsDigit(c) \/ c \in {45, 95, 46, 126})
\* _url_encode_path_re: [^A-Za-z0-9\-_.~/]
_url_encode_path_re(c) == ~(IsAlpha(c) \/ IsDigit(c) \/ c \in {45, 95, 46, 126, 47})

\* '%X' of one hexadecimal digit d, upper case
HexDigit(d) == IF d < 10 THEN 48 + d ELSE 55 + d
\* int(c, 16) of one hexadecimal digit
HexVal(c) == IF c \in 48..57 THEN c - 48 ELSE IF c \in 65..70 THEN c - 55 ELSE c - 87

\* ''.join('%%%02X' % b for b in data)
RECURSIVE PercentBytes(_)
PercentBytes(data) ==
    IF data = <<>> THEN <<>>
    ELSE <<37, HexDigit(Head(data) \div 16), HexDigit(Head(data) % 16)>>
            \o PercentBytes(Tail(data))

\* _url_encode(match) for a match of one character
_url_encode(c) == PercentBytes(Utf8Char(c))

\* _url_encode_readable(match)
_url_encode_readable(c) == IF c = 32 \/ c > 127 THEN _url_encode(c) ELSE <<c>>

RECURSIVE url_encode(_, _)
url_encode(url, mode) ==
    IF url = <<>> THEN <<>>
    ELSE LET c == Head(url)
             r == CASE mode = URL_ENCODE_DATA ->
                          IF _url_encode_re(c) THEN _url_encode(c) ELSE <<c>>
                    [] mode = URL_ENCODE_PATH ->
                          IF _url_encode_path_re(c) THEN _url_encode(c) ELSE <<c>>
                    [] mode = URL_ENCODE_READABLE ->
                          IF _url_encode_re(c) THEN _url_encode_readable(c) ELSE <<c>>
         IN  r \o url_encode(Tail(url), mode)

\* One escape of _url_decode_ascii_re at s[i]: %[0-7][a-fA-F0-9]
AsciiEscapeAt(s, i) ==
    i + 2 <= Len(s) /\ s[i] = 37 /\ s[i + 1] \in 48..55 /\ IsHex(s[i + 2])

\* One escape of _url_decode_unicode_bytes_re at s[i]: %[a-fA-F89][a-fA-F0-9]
HighEscapeAt(s, i) ==
    i + 2 <= Len(s) /\ s[i] = 37
        /\ (s[i + 1] \in {56, 57} \/ s[i + 1] \in 65..70 \/ s[i + 1] \in 97..102)
        /\ IsHex(s[i + 2])

\* The end (exclusive) of the greedy run (...)+ of escapes that starts at s[i]
RECURSIVE AsciiRunEnd(_, _)
AsciiRunEnd(s, i) == IF AsciiEscapeAt(s, i) THEN AsciiRunEnd(s, i + 3) ELSE i

RECURSIVE HighRunEnd(_, _)
HighRunEnd(s, i) == IF HighEscapeAt(s, i) THEN HighRunEnd(s, i + 3) ELSE i

\* ords = [int(hexstring[i + 1:i + 3], 16) for i in range(0, len(hexstring), 3)]
RECURSIVE Ords(_)
Ords(hexstring) ==
    IF hexstring = <<>> THEN <<>>
    ELSE <<HexVal(hexstring[2]) * 16 + HexVal(hexstring[3])>>
            \o Ords(SubSeq(hexstring, 4, Len(hexstring)))

\* _url_decode(match): bytes(ords).decode('UTF-8')
_url_decode(hexstring) == Utf8Decode(Ords(hexstring))

\* _url_decode_bytes(match): bytes(ords)
_url_decode_bytes(hexstring) == Ords(hexstring)

\* _url_decode_ascii_re.sub(_url_decode, url): [ok, str], ok FALSE when
\* _url_decode raises
RECURSIVE SubAscii(_, _)
SubAscii(s, i) ==
    IF i > Len(s) THEN [ok |-> TRUE, str |-> <<>>]
    ELSE IF AsciiEscapeAt(s, i)
        THEN LET e == AsciiRunEnd(s, i)
                 d == _url_decode(Slice(s, i, e))
                 rest == SubAscii(s, e)
             IN  [ok |-> d.ok /\ rest.ok, str |-> d.str \o rest.str]
        ELSE LET rest == SubAscii(s, i + 1)
             IN  [ok |-> rest.ok, str |-> <<s[i]>> \o rest.str]

\* url.replace('%20', ' ')
RECURSIVE Replace20(_, _)
Replace20(s, i) ==
    IF i > Len(s) THEN <<>>
    ELSE IF i + 2 <= Len(s) /\ s[i] = 37 /\ s[i + 1] = 50 /\ s[i + 2] = 48
        THEN <<32>> \o Replace20(s, i + 3)
        ELSE <<s[i]>> \o Replace20(s, i + 1)

\* _url_decode_unicode_bytes_re.sub(_url_decode_bytes, data) on a byte string
RECURSIVE SubHighBytes(_, _)
SubHighBytes(b, i) ==
    IF i > Len(b) THEN <<>>
    ELSE IF HighEscapeAt(b, i)
        THEN LET e == HighRunEnd(b, i)
             IN  _url_decode_bytes(Slice(b, i, e)) \o SubHighBytes(b, e)
        ELSE <<b[i]>> \o SubHighBytes(b, i + 1)

\* A first pass that decodes the ASCII escapes in every mode
url_decode_first_pass_any_mode(url, mode) == SubAscii(url, 1)

\* The first pass of url_decode, on the ASCII escapes
url_decode_first_pass(url, mode) ==
    IF mode = URL_ENCODE_READABLE
    THEN [ok |-> TRUE, str |-> Replace20(url, 1)]
    ELSE SubAscii(url, 1)

\* url_decode without its try ... except UnicodeDecodeError
url_decode_uncaught(url, mode) ==
    LET first == url_decode_first_pass(url, mode)
        data == SubHighBytes(Utf8Encode(first.str), 1)
        text == Utf8Decode(data)
    IN  IF ~first.ok \/ ~text.ok THEN [raised |-> TRUE, value |-> <<>>]
        ELSE [raised |-> FALSE, value |-> text.str]

\* url_decode(url, mode): [raised, value]
url_decode(url, mode) ==
    LET first == url_decode_first_pass(url, mode)
        data == SubHighBytes(Utf8Encode(first.str), 1)
        text == Utf8Decode(data)
    IN  IF ~first.ok THEN [raised |-> TRUE, value |-> <<>>]
        ELSE IF text.ok THEN [raised |-> FALSE, value |-> text.str]
        ELSE [raised |-> FALSE, value |-> first.str]


(***************************************************************************)
(* Specification SpecUrl: url_encode and url_decode applied to a url made  *)
(* of at most MaxTokens pieces, in each of the three modes.                *)
(***************************************************************************)
NoMatch == [found |-> FALSE]

Modes == {URL_ENCODE_DATA, URL_ENCODE_PATH, URL_ENCODE_READABLE}

\* "a", "%", "%20", "%41", "%CC", "%88" and U+0308 (whose UTF-8 is CC 88)
UrlTokens ==
    { <<97>>, <<37>>, <<37, 50, 48>>, <<37, 52, 49>>, <<37, 67, 67>>,
      <<37, 56, 56>>, <<776>> }

UrlInputs == {Concat(ts) : ts \in SeqsUpTo(UrlTokens, MaxTokens)}

InitUrl ==
    /\ pc = "start"
    /\ \E u \in UrlInputs, md \in Modes : arg = [url |-> u, mode |-> md]
    /\ ret = NoValue
    /\ m = NoMatch
    /\ hist = <<>>

\* url_encode(url, mode)
CallUrlEncode ==
    /\ pc = "start"
    /\ ret' = [raised |-> FALSE, value |-> url_encode(arg.url, arg.mode)]
    /\ pc' = "encoded"
    /\ UNCHANGED <<arg, m, hist>>

\* url_decode(url, mode)
CallUrlDecode ==
    /\ pc = "start"
    /\ ret' = url_decode(arg.url, arg.mode)
    /\ pc' = "decoded"
    /\ UNCHANGED <<arg, m, hist>>

\* url_decode(url_encode(url, mode), mode)
CallUrlDecodeEncoded ==
    /\ pc = "encoded"
    /\ ret' = url_decode(ret.value, arg.mode)
    /\ pc' = "roundtrip"
    /\ UNCHANGED <<arg, m, hist>>

NextUrl == CallUrlEncode \/ CallUrlDecode \/ CallUrlDecodeEncoded

SpecUrl == InitUrl /\ [][NextUrl]_vars

(***************************************************************************)
(* What the claims about the percent codec say, stated position by         *)
(* position on the text instead of by substitution.                        *)
(***************************************************************************)
\* The byte an escape %XX written at s[i] denotes, -1 when none is written there
EscapeByte(s, i) ==
    IF i + 2 <= Len(s) /\ s[i] = 37 /\ IsHex(s[i + 1]) /\ IsHex(s[i + 2])
    THEN HexVal(s[i + 1]) * 16 + HexVal(s[i + 2])
    ELSE -1

IsLowEscape(s, i) == i >= 1 /\ EscapeByte(s, i) \in 0..127
IsHighEscape(s, i) == i >= 1 /\ EscapeByte(s, i) \in 128..255

\* s with every piece replaced that Piece gives for the positions Starts, each
\* piece standing for the three characters of one escape
ReplaceEscapes(s, Starts(_), Piece(_)) ==
    Concat([i \in 1..Len(s) |->
        IF Starts(i) THEN Piece(i)
        ELSE IF Starts(i - 1) \/ Starts(i - 2) THEN <<>>
        ELSE <<s[i]>>])

\* Only each literal %20 replaced by a space
OnlySpacesDecoded(s) ==
    LET Is20(i) == i >= 1 /\ EscapeByte(s, i) = 32
    IN  ReplaceEscapes(s, Is20, LAMBDA i : <<32>>)

\* Every escape of a byte 00..7F replaced by its character
LowEscapesDecoded(s) ==
    ReplaceEscapes(s, LAMBDA i : IsLowEscape(s, i), LAMBDA i : <<EscapeByte(s, i)>>)

\* The bytes of the run of high-bit escapes that starts at s[i]
RECURSIVE HighRunBytes(_, _)
HighRunBytes(s, i) ==
    IF IsHighEscape(s, i) THEN <<EscapeByte(s, i)>> \o HighRunBytes(s, i + 3) ELSE <<>>

\* Where the contiguous runs of high-bit escapes of s start
HighRunStarts(s) ==
    {i \in 1..Len(s) : IsHighEscape(s, i) /\ ~IsHighEscape(s, i - 3)}

HighRunValid(s, i) == Utf8Decode(HighRunBytes(s, i)).ok

\* Run by run: each run that is valid UTF-8 decoded, each other run left as it is
HighRunsDecodedPerRun(s) ==
    LET starts == HighRunStarts(s)
        InDecodedRun(i) ==
            \E j \in starts : /\ HighRunValid(s, j)
                              /\ j < i
                              /\ i < j + 3 * Len(HighRunBytes(s, j))
    IN  Concat([i \in 1..Len(s) |->
            IF i \in starts /\ HighRunValid(s, i)
                THEN Utf8Decode(HighRunBytes(s, i)).str
            ELSE IF InDecodedRun(i) THEN <<>>
            ELSE <<s[i]>>])

\* All or nothing: every run decoded when all of them are valid UTF-8, none otherwise
HighRunsDecodedAllOrNone(s) ==
    IF \A i \in HighRunStarts(s) : HighRunValid(s, i)
    THEN HighRunsDecodedPerRun(s)
    ELSE s

Returned(v) == [raised |-> FALSE, value |-> v]

\* C1 (as claimed): url_decode(url_encode(s, DATA), DATA) = s for every s.
C1_RoundTripData ==
    (pc = "roundtrip" /\ arg.mode = URL_ENCODE_DATA) => ret = Returned(arg.url)

\* C2 (as claimed): in READABLE mode url_decode changes nothing but each
\* literal %20, which becomes a space.
C2_OnlyPercent20 ==
    (pc = "decoded" /\ arg.mode = URL_ENCODE_READABLE)
        => ret = Returned(OnlySpacesDecoded(arg.url))

\* C2 (amended): in READABLE mode url_decode replaces each literal %20 by a
\* space, leaves every other escape of a byte 00..7F as it is, and decodes the
\* runs of high-bit escapes as UTF-8 when all of them are valid UTF-8 (none of
\* them otherwise).
C2_ReadableDecode ==
    (pc = "decoded" /\ arg.mode = URL_ENCODE_READABLE)
        => ret = Returned(HighRunsDecodedAllOrNone(OnlySpacesDecoded(arg.url)))

\* A READABLE decode of a url holding %20, %41 and a valid run of high-bit
\* escapes: the run was decoded, %41 was not.
C2_Witness ==
    /\ pc = "decoded" /\ arg.mode = URL_ENCODE_READABLE
    /\ \E i \in 1..Len(arg.url) : EscapeByte(arg.url, i) = 32
    /\ \E i \in 1..Len(arg.url) : EscapeByte(arg.url, i) = 65
    /\ HighRunStarts(arg.url) # {}
    /\ ret.value # OnlySpacesDecoded(arg.url)
    /\ \E i \in 1..Len(ret.value) : EscapeByte(ret.value, i) = 65

\* C3 (as claimed): in DATA and PATH mode url_decode never raises and decodes
\* run by run: each valid run of high-bit escapes is decoded, only the invalid
\* runs stay escaped.
C3_PerRunRecovery ==
    (pc = "decoded" /\ arg.mode # URL_ENCODE_READABLE)
        => ret = Returned(HighRunsDecodedPerRun(LowEscapesDecoded(arg.url)))

\* C3 (amended): in DATA and PATH mode url_decode never raises; it decodes the
\* escapes of bytes 00..7F, and then the runs of high-bit escapes of that text
\* all together: all of them when every run is valid UTF-8, none of them when
\* one run is not.
C3_WholeTextRecovery ==
    (pc = "decoded" /\ arg.mode # URL_ENCODE_READABLE)
        => ret = Returned(HighRunsDecodedAllOrNone(LowEscapesDecoded(arg.url)))

\* A DATA decode of a url with a valid run, an invalid run and an ASCII escape:
\* the ASCII escape was decoded, no run was.
C3_Witness ==
    /\ pc = "decoded" /\ arg.mode = URL_ENCODE_DATA
    /\ \E i, j \in HighRunStarts(arg.url) :
            HighRunValid(arg.url, i) /\ ~HighRunValid(arg.url, j)
    /\ \E i \in 1..Len(arg.url) : IsLowEscape(arg.url, i)
    /\ ~ret.raised
    /\ ret.value = LowEscapesDecoded(arg.url)


(***************************************************************************)
(* Escape codec                                                            *)
(***************************************************************************)
Range(f) == {f[i] : i \in DOMAIN f}

\* _escape(match) for the matched character
_escape(char) ==
    IF char = 10 THEN <<92, 110>>
    ELSE IF char = 13 THEN <<92, 114>>
    ELSE IF char = 9 THEN <<92, 116>>
    ELSE <<92, char>>

\* escape_string(string, chars): re.sub('[\n\r\t\\\\%s]' % chars, _escape, string),
\* for chars that have no meaning of their own inside a character class
RECURSIVE escape_string(_, _)
escape_string(string, chars) ==
    IF string = <<>> THEN <<>>
    ELSE LET c == Head(string)
         IN  (IF c \in {10, 13, 9, 92} \cup Range(chars) THEN _escape(c) ELSE <<c>>)
                \o escape_string(Tail(string), chars)

\* _unescape(match) for the last character of the match
_unescape(char) ==
    IF char = 110 THEN <<10>>
    ELSE IF char = 116 THEN <<9>>
    ELSE <<char>>

\* unescape_string(string): re.sub('\\\\.', _unescape, string); '.' matches
\* every character but a newline
RECURSIVE UnescapeFrom(_, _)
UnescapeFrom(s, i) ==
    IF i > Len(s) THEN <<>>
    ELSE IF s[i] = 92 /\ i + 1 <= Len(s) /\ s[i + 1] # 10
        THEN _unescape(s[i + 1]) \o UnescapeFrom(s, i + 2)
        ELSE <<s[i]>> \o UnescapeFrom(s, i + 1)

unescape_string(string) == UnescapeFrom(string, 1)

\* string.split(char) for a char of one character
RECURSIVE StrSplit(_, _)
StrSplit(string, char) ==
    IF \A i \in 1..Len(string) : string[i] # char THEN <<string>>
    ELSE LET k == CHOOSE i \in 1..Len(string) :
                    string[i] = char /\ \A j \in 1..(i - 1) : string[j] # char
         IN  <<SubSeq(string, 1, k - 1)>>
                \o StrSplit(SubSeq(string, k + 1, Len(string)), char)

\* Where the maximal run of backslashes that starts at piece[i] ends (exclusive)
RECURSIVE BackslashRunEnd(_, _)
BackslashRunEnd(piece, i) ==
    IF i <= Len(piece) /\ piece[i] = 92 THEN BackslashRunEnd(piece, i + 1) ELSE i

\* '$' of a pattern without re.MULTILINE at position k: the end of the string,
\* or just before a newline that is the last character
DollarAt(s, k) == k = Len(s) + 1 \/ (k = Len(s) /\ s[k] = 10)

\* len(m.group(0)) for m = re.search('\\\\+$', piece), 0 when there is no match
TrailingBackslashes(piece) ==
    LET hits == {i \in 1..Len(piece) :
                    piece[i] = 92 /\ DollarAt(piece, BackslashRunEnd(piece, i))}
    IN  IF hits = {} THEN 0
        ELSE LET i == CHOOSE h \in hits : \A g \in hits : h <= g
             IN  BackslashRunEnd(piece, i) - i

\* The loop of split_escaped_string over the pieces from pieces[k] on
RECURSIVE SplitLoop(_, _, _, _, _)
SplitLoop(pieces, k, parts, trailing_backslash, char) ==
    IF k > Len(pieces) THEN parts
    ELSE LET piece == pieces[k]
             next == IF trailing_backslash
                     THEN [parts EXCEPT ![Len(parts)] = parts[Len(parts)] \o <<char>> \o piece]
                     ELSE Append(parts, piece)
         IN  SplitLoop(pieces, k + 1, next, TrailingBackslashes(piece) % 2 = 1, char)

\* split_escaped_string(string, char)
split_escaped_string(string, char) ==
    SplitLoop(StrSplit(string, char), 1, <<>>, FALSE, char)

(***************************************************************************)
(* Specification SpecEscape: the escape codec applied to a text of at most *)
(* MaxText characters.                                                     *)
(***************************************************************************)
\* backslash, newline, carriage return, tab, "n", ","
EscapeAlphabet == {92, 10, 13, 9, 110, 44}

\* The extra characters to escape: none, or ","
EscapeChars == {<<>>, <<44>>}

\* The separators to split on: "," or "n"
SplitChars == {44, 110}

InitEscape ==
    /\ pc = "start"
    /\ \E t \in SeqsUpTo(EscapeAlphabet, MaxText), cs \in EscapeChars, c \in SplitChars :
            arg = [string |-> t, chars |-> cs, char |-> c]
    /\ ret = NoValue
    /\ m = NoMatch
    /\ hist = <<>>

\* escape_string(string, chars)
CallEscapeString ==
    /\ pc = "start"
    /\ ret' = [value |-> escape_string(arg.string, arg.chars)]
    /\ pc' = "escaped"
    /\ UNCHANGED <<arg, m, hist>>

\* unescape_string(escape_string(string, chars))
CallUnescapeEscaped ==
    /\ pc = "escaped"
    /\ ret' = [value |-> unescape_string(ret.value)]
    /\ pc' = "unescaped"
    /\ UNCHANGED <<arg, m, hist>>

\* split_escaped_string(string, char)
CallSplitEscapedString ==
    /\ pc = "start"
    /\ ret' = [value |-> split_escaped_string(arg.string, arg.char)]
    /\ pc' = "split"
    /\ UNCHANGED <<arg, m, hist>>

NextEscape == CallEscapeString \/ CallUnescapeEscaped \/ CallSplitEscapedString

SpecEscape == InitEscape /\ [][NextEscape]_vars

\* C6 (as claimed): unescape_string(escape_string(T, C)) = T for all T and all
\* C without backslash, newline and tab.
C6_EscapeRoundTrip ==
    (pc = "unescaped" /\ Range(arg.chars) \cap {92, 10, 9} = {}) => ret.value = arg.string

\* The number of consecutive backslashes that end just before s[i]
RECURSIVE BackslashesBefore(_, _)
BackslashesBefore(s, i) ==
    IF i > 1 /\ s[i - 1] = 92 THEN 1 + BackslashesBefore(s, i - 1) ELSE 0

\* The occurrences of sep in s that an even number of backslashes precede
UnescapedAt(s, sep) ==
    {i \in 1..Len(s) : s[i] = sep /\ BackslashesBefore(s, i) % 2 = 0}

\* s cut at the positions of cuts, from position from on
RECURSIVE CutAt(_, _, _)
CutAt(s, cuts, from) ==
    LET later == {i \in cuts : i >= from}
    IN  IF later = {} THEN <<SubSeq(s, from, Len(s))>>
        ELSE LET k == CHOOSE i \in later : \A j \in later : i <= j
             IN  <<SubSeq(s, from, k - 1)>> \o CutAt(s, cuts, k + 1)

\* parts joined with sep
RECURSIVE Join(_, _)
Join(parts, sep) ==
    IF Len(parts) = 0 THEN <<>>
    ELSE IF Len(parts) = 1 THEN parts[1]
    ELSE parts[1] \o <<sep>> \o Join(Tail(parts), sep)

\* C7 (as claimed): split_escaped_string cuts the text at exactly the
\* separators that an even number of backslashes precede, and the parts joined
\* with the separator are the text.
C7_SplitAtUnescaped ==
    pc = "split" =>
        /\ ret.value = CutAt(arg.string, UnescapedAt(arg.string, arg.char), 1)
        /\ Join(ret.value, arg.char) = arg.string


(***************************************************************************)
(* Re: the wrapper that memorizes the last match.  Offsets are those of    *)
(* Python: the character at offset k of s is s[k + 1].  A match object is  *)
(* [found, string, regs]: regs[1] is the span of the whole match, regs[g+1]*)
(* the span of group g.                                                     *)
(***************************************************************************)
\* The patterns an instance is constructed with
Patterns == {"a+", "a*", "(a)|b"}

\* The number of "a" in s from offset pos on
RECURSIVE RunOfA(_, _)
RunOfA(s, pos) == IF pos < Len(s) /\ s[pos + 1] = 97 THEN 1 + RunOfA(s, pos + 1) ELSE 0

\* One attempt of the regex engine to match pattern at offset pos: the spans,
\* <<>> when there is no match there.  must_advance refuses an empty match.
TryMatch(pattern, s, pos, must_advance) ==
    CASE pattern = "a+" ->
            LET r == RunOfA(s, pos) IN IF r >= 1 THEN << <<pos, pos + r>> >> ELSE <<>>
      [] pattern = "a*" ->
            LET r == RunOfA(s, pos)
            IN  IF r = 0 /\ must_advance THEN <<>> ELSE << <<pos, pos + r>> >>
      [] pattern = "(a)|b" ->
            IF pos < Len(s) /\ s[pos + 1] = 97 THEN << <<pos, pos + 1>>, <<pos, pos + 1>> >>
            ELSE IF pos < Len(s) /\ s[pos + 1] = 98 THEN << <<pos, pos + 1>>, <<-1, -1>> >>
            ELSE <<>>

MatchObject(s, regs) == [found |-> TRUE, string |-> s, regs |-> regs]

\* pattern.match(s)
PatternMatch(pattern, s) ==
    LET regs == TryMatch(pattern, s, 0, FALSE)
    IN  IF regs = <<>> THEN NoMatch ELSE MatchObject(s, regs)

\* The engine's search from offset pos on: the first offset with a match;
\* must_advance holds for the first attempt only
RECURSIVE SearchFrom(_, _, _, _)
SearchFrom(pattern, s, pos, must_advance) ==
    IF pos > Len(s) THEN NoMatch
    ELSE LET regs == TryMatch(pattern, s, pos, must_advance)
         IN  IF regs = <<>> THEN SearchFrom(pattern, s, pos + 1, FALSE)
             ELSE MatchObject(s, regs)

\* pattern.search(s)
PatternSearch(pattern, s) == SearchFrom(pattern, s, 0, FALSE)

\* pattern.finditer(s): the successive non-overlapping matches; after an empty
\* match the next one must advance
RECURSIVE FinditerFrom(_, _, _, _)
FinditerFrom(pattern, s, pos, must_advance) ==
    LET mo == SearchFrom(pattern, s, pos, must_advance)
    IN  IF ~mo.found THEN <<>>
        ELSE <<mo>> \o FinditerFrom(pattern, s, mo.regs[1][2],
                                    mo.regs[1][2] = mo.regs[1][1])

Finditer(pattern, s) == FinditerFrom(pattern, s, 0, FALSE)

\* m.group(g), for a group that exists: its text, None when the group took no
\* part in the match
Group(mo, g) ==
    LET span == mo.regs[g + 1]
    IN  IF span[1] = -1 THEN [none |-> TRUE, text |-> <<>>]
        ELSE [none |-> FALSE, text |-> SubSeq(mo.string, span[1] + 1, span[2])]

\* The items of a list: a str, or an object that is not a str
Item(kind, text, first, last) == [kind |-> kind, text |-> text, start |-> first, end |-> last]
StrItem(s) == Item("str", s, 0, 0)
ObjItem(id) == Item("obj", <<>>, id, id)
\* What repl(self) returns: a token that records what the cursor held when
\* repl was called: self[0], self.start() and self.end()
repl(mo) == Item("tok", Group(mo, 0).text, mo.regs[1][1], mo.regs[1][2])

Raised(e) == [raised |-> TRUE, error |-> e]
Value(v) == [raised |-> FALSE, value |-> v]

\* Re.__len__
__len__(mo) == IF ~mo.found THEN 0 ELSE (Len(mo.regs) - 1) + 1

\* __getitem__ that returns None, instead of raising, without a match
__getitem__none(mo, i) ==
    IF ~mo.found THEN Value([none |-> TRUE, text |-> <<>>])
    ELSE IF i + 1 > Len(mo.regs) THEN Raised("IndexError")
    ELSE Value(Group(mo, i))

\* Re.__getitem__
__getitem__(mo, i) ==
    IF ~mo.found THEN Raised("IndexError")
    ELSE IF i + 1 > Len(mo.regs) THEN Raised("IndexError")
    ELSE Value(Group(mo, i))

\* Re.start(group): self.m.start(group); None has no attribute start
start(mo, group) ==
    IF ~mo.found THEN Raised("AttributeError")
    ELSE IF group + 1 > Len(mo.regs) THEN Raised("IndexError")
    ELSE Value(mo.regs[group + 1][1])

\* Re.end(group)
end(mo, group) ==
    IF ~mo.found THEN Raised("AttributeError")
    ELSE IF group + 1 > Len(mo.regs) THEN Raised("IndexError")
    ELSE Value(mo.regs[group + 1][2])

\* The inner loop of sublist that appends the text before a match also when
\* it is empty (start >= pos)
RECURSIVE SublistMatchesNoGuard(_, _, _, _)
SublistMatchesNoGuard(item, matches, k, pos) ==
    IF k > Len(matches)
    THEN IF pos < Len(item) THEN <<StrItem(SubSeq(item, pos + 1, Len(item)))>> ELSE <<>>
    ELSE LET from == matches[k].regs[1][1]
             upto == matches[k].regs[1][2]
         IN  <<StrItem(SubSeq(item, pos + 1, from))>>
                \o <<repl(matches[k])>>
                \o SublistMatchesNoGuard(item, matches, k + 1, upto)

\* The inner loop of sublist over the matches of one str item from matches[k]
\* on, and the test after it
RECURSIVE SublistMatches(_, _, _, _)
SublistMatches(item, matches, k, pos) ==
    IF k > Len(matches)
    THEN IF pos < Len(item) THEN <<StrItem(SubSeq(item, pos + 1, Len(item)))>> ELSE <<>>
    ELSE LET from == matches[k].regs[1][1]
             upto == matches[k].regs[1][2]
         IN  (IF from > pos THEN <<StrItem(SubSeq(item, pos + 1, from))>> ELSE <<>>)
                \o <<repl(matches[k])>>
                \o SublistMatches(item, matches, k + 1, upto)

\* Re.sublist(repl, list) from list[k] on: [result, m]
RECURSIVE sublist(_, _, _, _)
sublist(pattern, list, k, mo) ==
    IF k > Len(list) THEN [result |-> <<>>, m |-> mo]
    ELSE LET item == list[k]
         IN  IF item.kind = "str"
             THEN LET matches == Finditer(pattern, item.text)
                      last == IF matches = <<>> THEN mo ELSE matches[Len(matches)]
                      rest == sublist(pattern, list, k + 1, last)
                  IN  [result |-> SublistMatches(item.text, matches, 1, 0) \o rest.result,
                       m |-> rest.m]
             ELSE LET rest == sublist(pattern, list, k + 1, mo)
                  IN  [result |-> <<item>> \o rest.result, m |-> rest.m]


(***************************************************************************)
(* Specification SpecRe: one Re instance, and any sequence of match,       *)
(* search and sublist calls and of reads of the memorized match.  arg      *)
(* holds the pattern of the instance and the group of the last read.       *)
(***************************************************************************)
\* The strings over "a" and "b" of at most MaxItem characters
ReStrings == SeqsUpTo({97, 98}, MaxItem)

ReItems == {StrItem(s) : s \in ReStrings} \cup {ObjItem(0)}

\* The lists sublist is called with here: no item, one item, or one item
\* beside an object or beside the str "b"
ReLists ==
    SeqsUpTo(ReItems, 1)
        \cup {<<ObjItem(0), it>> : it \in ReItems}
        \cup {<<it, ObjItem(0)>> : it \in ReItems}
        \cup {<<it, StrItem(<<98>>)>> : it \in ReItems}

\* hist.ms: how the most recent match or search call on the instance ended;
\* hist.sub: whether a sublist call since then (or since the construction)
\* found a match
FreshHist == [ms |-> "none", sub |-> FALSE]

InitRe ==
    /\ pc = "init"
    /\ \E p \in Patterns : arg = [pattern |-> p, group |-> 0]
    /\ ret = NoValue
    /\ m = NoMatch
    /\ hist = FreshHist

\* Re.match(string)
CallMatch(string) ==
    /\ m' = PatternMatch(arg.pattern, string)
    /\ ret' = Value(m')
    /\ hist' = [ms |-> IF m'.found THEN "found" ELSE "failed", sub |-> FALSE]
    /\ pc' = "match"
    /\ UNCHANGED arg

\* Re.search(string)
CallSearch(string) ==
    /\ m' = PatternSearch(arg.pattern, string)
    /\ ret' = Value(m')
    /\ hist' = [ms |-> IF m'.found THEN "found" ELSE "failed", sub |-> FALSE]
    /\ pc' = "search"
    /\ UNCHANGED arg

\* Whether the pattern matches somewhere in a str item of list
AnyMatch(pattern, list) ==
    \E k \in 1..Len(list) : list[k].kind = "str" /\ Finditer(pattern, list[k].text) # <<>>

\* Re.sublist(repl, list)
CallSublist(list) ==
    LET r == sublist(arg.pattern, list, 1, m)
    IN  /\ m' = r.m
        /\ ret' = Value(r.result)
        /\ hist' = [hist EXCEPT !.sub = hist.sub \/ AnyMatch(arg.pattern, list)]
        /\ pc' = "sublist"
        /\ UNCHANGED arg

\* self[i]
CallGetItem(i) ==
    /\ ret' = __getitem__(m, i)
    /\ pc' = "getitem"
    /\ arg' = [arg EXCEPT !.group = i]
    /\ UNCHANGED <<m, hist>>

\* self.start(group)
CallStart(group) ==
    /\ ret' = start(m, group)
    /\ pc' = "start"
    /\ arg' = [arg EXCEPT !.group = group]
    /\ UNCHANGED <<m, hist>>

\* self.end(group)
CallEnd(group) ==
    /\ ret' = end(m, group)
    /\ pc' = "end"
    /\ arg' = [arg EXCEPT !.group = group]
    /\ UNCHANGED <<m, hist>>

\* len(self)
CallLen ==
    /\ ret' = Value(__len__(m))
    /\ pc' = "len"
    /\ UNCHANGED <<arg, m, hist>>

NextRe ==
    \/ \E string \in ReStrings : CallMatch(string)
    \/ \E string \in ReStrings : CallSearch(string)
    \/ \E list \in ReLists : CallSublist(list)
    \/ \E i \in 0..2 : CallGetItem(i)
    \/ \E group \in 0..1 : CallStart(group)
    \/ \E group \in 0..1 : CallEnd(group)
    \/ CallLen

SpecRe == InitRe /\ [][NextRe]_vars

\* A read of the memorized match has just returned or raised
AfterRead == pc \in {"getitem", "start", "end"}

\* C4 (as claimed): indexed access, start() and end() succeed only when the
\* most recent match or search call found a match; in every other state they
\* raise and len() is 0.
C4_ValidOnlyAfterMatch ==
    /\ (AfterRead /\ hist.ms # "found") => ret.raised
    /\ (pc = "len" /\ hist.ms # "found") => ret.value = 0

\* The instance memorizes a match: the most recent match or search call found
\* one, or a sublist call made since then (or since the construction) did
Memorized == hist.ms = "found" \/ hist.sub

\* C4 (amended): indexed access, start() and end() succeed only when the most
\* recent match or search call found a match or a sublist call made since that
\* call (or since the construction) found one; then self[0], start(0) and
\* end(0) do succeed and len() is at least 1.  In every other state
\* each of them raises and len() is 0.
C4_ValidOnlyWhenMemorized ==
    /\ (AfterRead /\ ~Memorized) => ret.raised
    /\ (pc = "len" /\ ~Memorized) => ret.value = 0
    /\ (AfterRead /\ Memorized /\ arg.group = 0) => ~ret.raised
    /\ (pc = "len" /\ Memorized) => ret.value >= 1

\* self[i] returned a value although the most recent match or search call
\* failed: a sublist call after it found a match.
C4_Witness ==
    pc = "getitem" /\ hist.ms = "failed" /\ hist.sub /\ ~ret.raised


(***************************************************************************)
(* Specification SpecSublist: one sublist call on a fresh Re instance,     *)
(* with a list of at most MaxList items.                                   *)
(***************************************************************************)
InitSublist ==
    /\ pc = "init"
    /\ \E p \in Patterns, l \in SeqsUpTo(ReItems, MaxList) :
            arg = [pattern |-> p, group |-> 0, list |-> l]
    /\ ret = NoValue
    /\ m = NoMatch
    /\ hist = FreshHist

NextSublist == pc = "init" /\ CallSublist(arg.list)

SpecSublist == InitSublist /\ [][NextSublist]_vars

\* What the claim makes of one item: a str item gives, for its k-th match, the
\* text between the match before it and that match, if there is any, and the
\* token of the match; then the text after the last match, if there is any.
ExpectedOfItem(pattern, item) ==
    IF item.kind # "str" THEN <<item>>
    ELSE LET mo == Finditer(pattern, item.text)
             n == Len(mo)
             From(k) == IF k = 1 THEN 0 ELSE mo[k - 1].regs[1][2]
             To(k) == IF k = n + 1 THEN Len(item.text) ELSE mo[k].regs[1][1]
             Gap(k) == SubSeq(item.text, From(k) + 1, To(k))
         IN  Concat([k \in 1..(n + 1) |->
                (IF Gap(k) # <<>> THEN <<StrItem(Gap(k))>> ELSE <<>>)
                    \o (IF k <= n
                        THEN <<Item("tok", SubSeq(item.text, To(k) + 1, mo[k].regs[1][2]),
                                    To(k), mo[k].regs[1][2])>>
                        ELSE <<>>)])

\* The text of a list: its str items and the matched text of its tokens
\* concatenated, each object standing as the mark -1
RECURSIVE TextOf(_)
TextOf(list) ==
    IF list = <<>> THEN <<>>
    ELSE (IF Head(list).kind = "obj" THEN <<-1>> ELSE Head(list).text) \o TextOf(Tail(list))

\* C5: Re.sublist(repl, list) returns, in the order of the input, each item
\* that is no str unchanged and, for each str item, its non-empty unmatched
\* pieces alternating with one repl(cursor) result per successive match; no
\* empty piece of text is returned, and the pieces and matched texts of an
\* item concatenated are the item.
C5_SublistResult ==
    pc = "sublist" =>
        /\ ret.value = Concat([k \in 1..Len(arg.list) |->
                                    ExpectedOfItem(arg.pattern, arg.list[k])])
        /\ \A k \in 1..Len(ret.value) :
                ret.value[k].kind = "str" => ret.value[k].text # <<>>
        /\ \A k \in 1..Len(arg.list) :
                TextOf(ExpectedOfItem(arg.pattern, arg.list[k])) = TextOf(<<arg.list[k]>>)
        /\ TextOf(ret.value) = TextOf(arg.list)

\* A sublist call that returned an object, a piece of unmatched text, and two
\* tokens of adjacent matches with no text between them.
C5_Witness ==
    /\ pc = "sublist"
    /\ \E k \in 1..Len(ret.value) : ret.value[k].kind = "obj"
    /\ \E k \in 1..Len(ret.value) : ret.value[k].kind = "str"
    /\ \E k \in 1..(Len(ret.value) - 1) :
            /\ ret.value[k].kind = "tok" /\ ret.value[k + 1].kind = "tok"
            /\ ret.value[k].end = ret.value[k + 1].start
            /\ ret.value[k].text # <<>>


(***************************************************************************)
(* Link classifier                                                         *)
(***************************************************************************)
\* The letters beyond ASCII that the inputs of the model use (U+00E9)
UnicodeLetters == {233}

\* \w of a str pattern
IsWord(c) == IsAlpha(c) \/ IsDigit(c) \/ c = 95 \/ c \in UnicodeLetters

\* \s of a str pattern, for the characters up to U+00A0
IsSpace(c) == c \in 9..13 \/ c \in 28..32 \/ c \in {133, 160}

\* [\w\+\-\.]
IsSchemeChar(c) == IsWord(c) \/ c \in {43, 45, 46}

\* The literals of the link classifier
MAILTO == <<109, 97, 105, 108, 116, 111>>
MAILTO_COLON == <<109, 97, 105, 108, 116, 111, 58>>
ZIM_PLUS == <<122, 105, 109, 43>>
FILE_SLASH == <<102, 105, 108, 101, 58, 47>>
MID_COLON == <<109, 105, 100, 58>>
CID_COLON == <<99, 105, 100, 58>>
WWW_DOT == <<119, 119, 119, 46>>
SMB_URL == <<115, 109, 98, 58, 47, 47>>
SMB_COLON == <<115, 109, 98, 58>>
AT_A_A == <<64, 97, 46, 97>>
NOTEBOOK == <<110, 111, 116, 101, 98, 111, 111, 107>>
FILE == <<102, 105, 108, 101>>
HTTP == <<104, 116, 116, 112>>
SMB == <<115, 109, 98>>
INTERWIKI == <<105, 110, 116, 101, 114, 119, 105, 107, 105>>
PAGE == <<112, 97, 103, 101>>

\* s.startswith(prefix)
StartsWith(s, prefix) ==
    Len(s) >= Len(prefix) /\ SubSeq(s, 1, Len(prefix)) = prefix

\* Where the greedy \w[\w\+\-\.]* that starts at s[1] ends (exclusive), 1 when
\* s does not start with \w
RECURSIVE SchemeCharsEnd(_, _)
SchemeCharsEnd(s, i) ==
    IF i <= Len(s) /\ IsSchemeChar(s[i]) THEN SchemeCharsEnd(s, i + 1) ELSE i

SchemeEnd(s) == IF Len(s) >= 1 /\ IsWord(s[1]) THEN SchemeCharsEnd(s, 2) ELSE 1

\* is_uri_re.match(link): '^(\w[\w\+\-\.]*):'
is_uri_re(link) ==
    LET e == SchemeEnd(link) IN e > 1 /\ e <= Len(link) /\ link[e] = 58

\* is_url_re.match(link): '^(\w[\w\+\-\.]*)://'
is_url_re(link) ==
    LET e == SchemeEnd(link)
    IN  e > 1 /\ e + 2 <= Len(link) /\ link[e] = 58 /\ link[e + 1] = 47 /\ link[e + 2] = 47

\* is_uri_re[1] and is_url_re[1] after a match: the scheme
SchemeGroup(link) == SubSeq(link, 1, SchemeEnd(link) - 1)

\* is_email_re.match(link): '^(mailto:\S+|[^\s:]+)\@\S+\.\w+(\?.+)?$'.
\* at is the place of '@', dot the place of '\.', w the last place of \w+ and
\* e the last place of the match, which '$' must follow.
is_email_re(link) ==
    LET n == Len(link)
        NoSpace(i, j) == \A k \in i..j : ~IsSpace(link[k])
        Name(at) ==
            \/ /\ StartsWith(link, MAILTO_COLON)
               /\ at >= Len(MAILTO_COLON) + 2
               /\ NoSpace(1, at - 1)
            \/ /\ at >= 2
               /\ \A k \in 1..(at - 1) : ~IsSpace(link[k]) /\ link[k] # 58
        Query(w, e) ==
            \/ e = w
            \/ /\ e >= w + 2
               /\ link[w + 1] = 63
               /\ \A k \in (w + 2)..e : link[k] # 10
    IN  \E at \in {k \in 1..n : link[k] = 64 /\ Name(k)} :
        \E dot \in {k \in (at + 2)..n : link[k] = 46 /\ NoSpace(at + 1, k - 1)} :
        \E w \in {k \in (dot + 1)..n : \A j \in (dot + 1)..k : IsWord(link[j])} :
        \E e \in {k \in w..n : Query(w, k)} :
            DollarAt(link, e + 1)

\* is_www_link_re.match(link): '^www\.([\w\-]+\.)+[\w\-]+'
RECURSIVE DomainCharsEnd(_, _)
DomainCharsEnd(s, i) ==
    IF i <= Len(s) /\ (IsWord(s[i]) \/ s[i] = 45) THEN DomainCharsEnd(s, i + 1) ELSE i

is_www_link_re(link) ==
    /\ StartsWith(link, WWW_DOT)
    /\ LET e == DomainCharsEnd(link, 5)
       IN  /\ e > 5 /\ e + 1 <= Len(link) /\ link[e] = 46
           /\ DomainCharsEnd(link, e + 1) > e + 1

\* is_win32_share_re.match(link): r'^(\\\\[^\\]+\\.+|smb://)'
is_win32_share_re(link) ==
    \/ StartsWith(link, SMB_URL)
    \/ /\ StartsWith(link, <<92, 92>>)
       /\ \E k \in 4..Len(link) :
            /\ \A j \in 3..(k - 1) : link[j] # 92
            /\ link[k] = 92
            /\ k + 1 <= Len(link) /\ link[k + 1] # 10

\* is_path_re.match(link): r'^(/|\.\.?[/\\]|~.*[/\\]|[A-Za-z]:\\)'
is_path_re(link) ==
    LET n == Len(link)
        Slash(c) == c \in {47, 92}
    IN  \/ n >= 1 /\ link[1] = 47
        \/ n >= 2 /\ link[1] = 46 /\ Slash(link[2])
        \/ n >= 3 /\ link[1] = 46 /\ link[2] = 46 /\ Slash(link[3])
        \/ /\ n >= 2 /\ link[1] = 126
           /\ \E k \in 2..n : Slash(link[k]) /\ \A j \in 2..(k - 1) : link[j] # 10
        \/ n >= 3 /\ IsAlpha(link[1]) /\ link[2] = 58 /\ link[3] = 92

\* is_interwiki_re.match(link): '^(\w[\w\+\-\.]*)\?(.*)'
is_interwiki_re(link) ==
    LET e == SchemeEnd(link) IN e > 1 /\ e <= Len(link) /\ link[e] = 63

Some(v) == [none |-> FALSE, value |-> v]
None == [none |-> TRUE, value |-> <<>>]

\* uri_scheme(link)
uri_scheme(link) ==
    IF is_email_re(link) THEN Some(MAILTO)
    ELSE IF is_uri_re(link) THEN Some(SchemeGroup(link))
    ELSE None

\* link_type with the test for a path before the test for an email address
link_type_path_first(link) ==
    IF is_url_re(link)
        THEN IF StartsWith(link, ZIM_PLUS) THEN NOTEBOOK ELSE SchemeGroup(link)
    ELSE IF StartsWith(link, FILE_SLASH) THEN FILE
    ELSE IF is_path_re(link) THEN FILE
    ELSE IF is_email_re(link) THEN MAILTO
    ELSE IF is_www_link_re(link) THEN HTTP
    ELSE IF 64 \in Range(link) /\ (StartsWith(link, MID_COLON) \/ StartsWith(link, CID_COLON))
        THEN SubSeq(link, 1, 3)
    ELSE IF is_win32_share_re(link) THEN SMB
    ELSE IF is_interwiki_re(link) THEN INTERWIKI
    ELSE PAGE

\* link_type(link)
link_type(link) ==
    IF is_url_re(link)
        THEN IF StartsWith(link, ZIM_PLUS) THEN NOTEBOOK ELSE SchemeGroup(link)
    ELSE IF StartsWith(link, FILE_SLASH) THEN FILE
    ELSE IF is_email_re(link) THEN MAILTO
    ELSE IF is_www_link_re(link) THEN HTTP
    ELSE IF 64 \in Range(link) /\ (StartsWith(link, MID_COLON) \/ StartsWith(link, CID_COLON))
        THEN SubSeq(link, 1, 3)
    ELSE IF is_win32_share_re(link) THEN SMB
    ELSE IF is_path_re(link) THEN FILE
    ELSE IF is_interwiki_re(link) THEN INTERWIKI
    ELSE PAGE

(***************************************************************************)
(* Specification SpecLink: uri_scheme and link_type applied to a link: a   *)
(* prefix, at most MaxTail characters, and an ending.                      *)
(***************************************************************************)
\* "", "mailto:", "zim+", "file:/", "mid:", "www.a", "smb:", "\\a\" and "~"
LinkPrefixes ==
    { <<>>, MAILTO_COLON, ZIM_PLUS, FILE_SLASH, MID_COLON, WWW_DOT \o <<97>>,
      SMB_COLON, <<92, 92, 97, 92>>, <<126>> }

\* "a", "@", ":", "/", "?", "."
LinkAlphabet == {97, 64, 58, 47, 63, 46}

\* "", "@a.a", "@a.a?a", "@a.a" and a newline, ".a"
LinkEndings == { <<>>, AT_A_A, AT_A_A \o <<63, 97>>, AT_A_A \o <<10>>, <<46, 97>> }

InitLink ==
    /\ pc = "start"
    /\ \E p \in LinkPrefixes, t \in SeqsUpTo(LinkAlphabet, MaxTail), e \in LinkEndings :
            arg = [link |-> p \o t \o e]
    /\ ret = NoValue
    /\ m = NoMatch
    /\ hist = <<>>

\* uri_scheme(link)
CallUriScheme ==
    /\ pc = "start"
    /\ ret' = uri_scheme(arg.link)
    /\ pc' = "uri_scheme"
    /\ UNCHANGED <<arg, m, hist>>

\* link_type(link)
CallLinkType ==
    /\ pc = "start"
    /\ ret' = Some(link_type(arg.link))
    /\ pc' = "link_type"
    /\ UNCHANGED <<arg, m, hist>>

NextLink == CallUriScheme \/ CallLinkType

SpecLink == InitLink /\ [][NextLink]_vars

\* C8: for every link that matches the email pattern, uri_scheme(link) and
\* link_type(link) are both 'mailto': no earlier rule of link_type gives such
\* a link another tag.
C8_EmailIsMailto ==
    (pc \in {"uri_scheme", "link_type"} /\ is_email_re(arg.link)) => ret = Some(MAILTO)

\* link_type returned 'mailto' for a link that matches the email pattern and
\* the generic URL pattern as well.
C8_Witness ==
    /\ pc = "link_type"
    /\ is_email_re(arg.link) /\ is_url_re(arg.link)
    /\ ret = Some(MAILTO)

(***************************************************************************)
(* Interwiki keys                                                          *)
(***************************************************************************)
\* [\w+\-.]
IsKeyChar(c) == IsWord(c) \/ c \in {43, 45, 46}

\* re.sub('[^\w+\-.]', '_', name)
RECURSIVE SubNonKeyChars(_)
SubNonKeyChars(name) ==
    IF name = <<>> THEN <<>>
    ELSE <<IF IsKeyChar(Head(name)) THEN Head(name) ELSE 95>> \o SubNonKeyChars(Tail(name))

\* valid_interwiki_key(name); key[0] of an empty key raises IndexError
valid_interwiki_key(name) ==
    LET key == SubNonKeyChars(name)
    IN  IF key = <<>> THEN Raised("IndexError")
        ELSE IF key[1] \in {45, 46} THEN Value(<<95>> \o Tail(key))
        ELSE Value(key)

\* is_interwiki_keyword_re.match(key): '^\w[\w+\-.]*$'
is_interwiki_keyword_re(key) ==
    /\ Len(key) >= 1 /\ IsWord(key[1])
    /\ \E e \in 1..Len(key) :
            /\ \A k \in 2..e : IsKeyChar(key[k])
            /\ DollarAt(key, e + 1)

(***************************************************************************)
(* Specification SpecKey: valid_interwiki_key applied to a name of at most *)
(* MaxKey characters, and then to the key it returned.                     *)
(***************************************************************************)
\* "a", "_", "+", "-", ".", " ", U+00E9 and a newline
KeyAlphabet == {97, 95, 43, 45, 46, 32, 233, 10}

InitKey ==
    /\ pc = "start"
    /\ \E name \in SeqsUpTo(KeyAlphabet, MaxKey) : arg = [name |-> name, key |-> <<>>]
    /\ ret = NoValue
    /\ m = NoMatch
    /\ hist = <<>>

\* key = valid_interwiki_key(name)
CallValidInterwikiKey ==
    /\ pc = "start"
    /\ ret' = valid_interwiki_key(arg.name)
    /\ pc' = "key"
    /\ UNCHANGED <<arg, m, hist>>

\* valid_interwiki_key(key)
CallValidInterwikiKeyAgain ==
    /\ pc = "key" /\ ~ret.raised
    /\ ret' = valid_interwiki_key(ret.value)
    /\ arg' = [arg EXCEPT !.key = ret.value]
    /\ pc' = "key of key"
    /\ UNCHANGED <<m, hist>>

NextKey == CallValidInterwikiKey \/ CallValidInterwikiKeyAgain

SpecKey == InitKey /\ [][NextKey]_vars

\* C10 (as claimed): for every non-empty name, is_interwiki_keyword_re accepts
\* valid_interwiki_key(name), and valid_interwiki_key returns that key
\* unchanged.
C10_KeyIsValid ==
    /\ (pc = "key" /\ arg.name # <<>>) => (~ret.raised /\ is_interwiki_keyword_re(ret.value))
    /\ pc = "key of key" => ret = Value(arg.key)


(***************************************************************************)
(* Date parser                                                             *)
(***************************************************************************)
\* How many of the characters of s from s[i] on are digits, up to max of them
RECURSIVE DigitsAt(_, _, _)
DigitsAt(s, i, max) ==
    IF max > 0 /\ i <= Len(s) /\ IsDigit(s[i]) THEN 1 + DigitsAt(s, i + 1, max - 1) ELSE 0

\* One attempt to match _parse_date_re at s[i]:
\* (\d{1,4})\D(\d{1,2})(?:\D(\d{1,4}))?  Every quantifier is greedy and gives
\* back on failure: the first group takes the most digits after which \D and a
\* digit follow.  The groups, <<>> when there is no match at s[i].
DateMatchAt(s, i) ==
    LET n == Len(s)
        firsts == {k \in 1..DigitsAt(s, i, 4) :
                        /\ i + k <= n /\ ~IsDigit(s[i + k])
                        /\ DigitsAt(s, i + k + 1, 2) >= 1}
    IN  IF firsts = {} THEN <<>>
        ELSE LET k1 == CHOOSE k \in firsts : \A j \in firsts : j <= k
                 i2 == i + k1 + 1
                 k2 == DigitsAt(s, i2, 2)
                 i3 == i2 + k2 + 1
                 k3 == IF i3 - 1 <= n /\ ~IsDigit(s[i3 - 1]) THEN DigitsAt(s, i3, 4) ELSE 0
             IN  << Some(SubSeq(s, i, i + k1 - 1)),
                    Some(SubSeq(s, i2, i2 + k2 - 1)),
                    IF k3 >= 1 THEN Some(SubSeq(s, i3, i3 + k3 - 1)) ELSE None >>

\* _parse_date_re.search(string).groups(), <<>> when there is no match
RECURSIVE DateSearchFrom(_, _)
DateSearchFrom(s, i) ==
    IF i > Len(s) THEN <<>>
    ELSE LET g == DateMatchAt(s, i) IN IF g # <<>> THEN g ELSE DateSearchFrom(s, i + 1)

_parse_date_re(string) == DateSearchFrom(string, 1)

\* int(digits)
RECURSIVE ToInt(_)
ToInt(digits) ==
    IF digits = <<>> THEN 0
    ELSE ToInt(SubSeq(digits, 1, Len(digits) - 1)) * 10 + (digits[Len(digits)] - 48)

\* The year of parse_date with the year 50 still taken as one of the 21st
\* century (y <= 50 instead of y < 50)
ExplicitYearOffByOne(y) ==
    IF y <= 50 THEN y + 2000 ELSE IF y < 1000 THEN y + 1900 ELSE y

\* The year parse_date makes of the year it captured
ExplicitYear(y) ==
    IF y < 50 THEN y + 2000 ELSE IF y < 1000 THEN y + 1900 ELSE y

\* The year parse_date guesses for a month when no year was captured
GuessedYear(today, month) ==
    IF today.month - month >= 6 THEN today.year + 1 ELSE today.year

\* parse_date(string), on the day today
parse_date(string, today) ==
    LET g == _parse_date_re(string)
    IN  IF g = <<>> THEN None
        ELSE LET swap == Len(g[1].value) = 4
                 d == IF swap THEN g[3] ELSE g[1]
                 mo == g[2]
                 y == IF swap THEN g[1] ELSE g[3]
             IN  IF d.none THEN None
                 ELSE Some(<< IF y.none THEN GuessedYear(today, ToInt(mo.value))
                                        ELSE ExplicitYear(ToInt(y.value)),
                              ToInt(mo.value), ToInt(d.value) >>)

(***************************************************************************)
(* Specification SpecDate: parse_date applied, on a day of some month, to  *)
(* a text: at most MaxLead characters, a first number, and then perhaps a  *)
(* separator and a second number, and a separator and a third number.      *)
(***************************************************************************)
\* "x", "7", "-"
LeadAlphabet == {120, 55, 45}

\* "1", "15", "123", "2024", "0049", "0999"
FirstNumbers == { <<49>>, <<49, 53>>, <<49, 50, 51>>, <<50, 48, 50, 52>>, <<48, 48, 52, 57>>, <<48, 57, 57, 57>> }
\* "", "-3", "-06", "-12", "/123"
SecondNumbers == { <<>>, <<45, 51>>, <<45, 48, 54>>, <<45, 49, 50>>, <<47, 49, 50, 51>> }
\* "", "-0", "-49", "-50", "-999", "-1000", "-15", " 20245"
ThirdNumbers == { <<>>, <<45, 48>>, <<45, 52, 57>>, <<45, 53, 48>>, <<45, 57, 57, 57>>, <<45, 49, 48, 48, 48>>, <<45, 49, 53>>, <<32, 50, 48, 50, 52, 53>> }

Today == [year : {2026}, month : 1..12]

InitDate ==
    /\ pc = "start"
    /\ \E lead \in SeqsUpTo(LeadAlphabet, MaxLead), f \in FirstNumbers,
          sn \in SecondNumbers, tn \in ThirdNumbers, today \in Today :
            arg = [string |-> lead \o f \o sn \o tn, today |-> today]
    /\ ret = NoValue
    /\ m = NoMatch
    /\ hist = <<>>

\* parse_date(string)
CallParseDate ==
    /\ pc = "start"
    /\ ret' = parse_date(arg.string, arg.today)
    /\ pc' = "parsed"
    /\ UNCHANGED <<arg, m, hist>>

NextDate == CallParseDate

SpecDate == InitDate /\ [][NextDate]_vars

\* The numbers the pattern captured in string, as the claim names them: the
\* first one is the year when it has four digits, and the day when it has not
CapturedYear(string) ==
    LET g == _parse_date_re(string) IN IF Len(g[1].value) = 4 THEN g[1] ELSE g[3]
CapturedMonth(string) == _parse_date_re(string)[2]
CapturedDay(string) ==
    LET g == _parse_date_re(string) IN IF Len(g[1].value) = 4 THEN g[3] ELSE g[1]

\* C9: whenever parse_date returns a triple, its year is y + 2000 for a
\* captured year y < 50, y + 1900 for 50 <= y < 1000 and y for y >= 1000; when
\* no year was captured it is the next year if the current month minus the
\* parsed month is at least 6, and the current year otherwise; month and day
\* are the captured numbers.
C9_YearResolution ==
    (pc = "parsed" /\ ~ret.none) =>
        LET y == CapturedYear(arg.string)
            month == ToInt(CapturedMonth(arg.string).value)
            day == ToInt(CapturedDay(arg.string).value)
            year ==
                IF ~y.none
                THEN CASE ToInt(y.value) < 50 -> ToInt(y.value) + 2000
                       [] ToInt(y.value) >= 50 /\ ToInt(y.value) < 1000 -> ToInt(y.value) + 1900
                       [] ToInt(y.value) >= 1000 -> ToInt(y.value)
                ELSE IF arg.today.month - month >= 6
                     THEN arg.today.year + 1 ELSE arg.today.year
        IN  ret.value = <<year, month, day>>

\* parse_date returned the year 1950 for the captured year 50, the first year
\* that is taken as one of the 20th century.
C9_Witness ==
    /\ pc = "parsed" /\ ~ret.none
    /\ ~CapturedYear(arg.string).none
    /\ ToInt(CapturedYear(arg.string).value) = 50
    /\ ret.value[1] = 1950

=============================================================================
